---- MODULE Spec2Model ----
(***************************************************************************)
(* HeatControl (apps/heat_ctrl/heat_ctrl.py): the TRV controller of one    *)
(* zone.  Callbacks run to completion, one at a time; an exception raised  *)
(* inside a callback ends it and keeps the assignments made so far.        *)
(*                                                                         *)
(* Temperatures and setpoints are floats in the code.  They are            *)
(* represented here in sixteenths of a degree (24.0 C is 384), a grid on   *)
(* which every value, sum and difference is an exact binary float, so the  *)
(* comparisons of the code (<, >, !=, abs(..) >= 0.1) are the integer      *)
(* comparisons written below.  A negative number stands for a value that   *)
(* float() rejects.                                                        *)
(***************************************************************************)
EXTENDS Integers, Sequences, FiniteSets, TLC

\* ---- bounds of the model ----
NumTrv == 2
MaxRetriesCfg == 2
MaxTimers == 2

\* ---- configuration (extract_config) ----
retry_count_cfg == 3
setpoint_on == 384
setpoint_off == 96
temp_tol_min == 8
\* line 19 reads the key "temperature_tollerance_min" for the upper tolerance
temp_tol_max == temp_tol_min

\* a state or attribute value float() raises on (None, "unavailable", ...)
Unavailable == -1
\* the sensor state "unknown": not the string "unavailable", not a number
Unknown == -3
\* expected_setpoint before its first assignment
NoValue == -2

trv_configs == [i \in 1..NumTrv |-> i]

Trvs == 1..NumTrv

weekdays == <<"mon", "tue", "wed", "thu", "fri", "sat", "sun">>

\* the schedule of apps.yaml: day-range keys in configured order (the key is
\* shown as split('_') leaves it), each with its "start,end,setpoint" entries
\* (hours of the day; setpoints 19.0, 20.5, 21.0)
periods ==
  << [period_name |-> <<"mon">>,
      entries |-> << [start |-> 5, end |-> 8, setpoint |-> 304] >>],
     [period_name |-> <<"tue", "fri">>,
      entries |-> << [start |-> 9, end |-> 13, setpoint |-> 304],
                     [start |-> 12, end |-> 20, setpoint |-> 328] >>],
     [period_name |-> <<"sat", "tue">>,
      entries |-> << [start |-> 6, end |-> 22, setpoint |-> 336] >>] >>

\* ---- values the platform delivers ----
Readings == {Unavailable, setpoint_off, setpoint_on, setpoint_on + 1, 320}
Temps == {Unavailable, Unknown, 290, 320, 336, 350}
WindowStates == {"on", "off", "unavailable"}
\* get_now(): weekday ("%a" lowered) and hour of the day
Clocks ==
  {[today |-> "mon", now |-> 7], [today |-> "mon", now |-> 12],
   [today |-> "wed", now |-> 12], [today |-> "wed", now |-> 15],
   [today |-> "wed", now |-> 23], [today |-> "sun", now |-> 23]}

VARIABLES
  active,            \* self.active
  retry_count,       \* self.retry_count
  expected_setpoint, \* self.expected_setpoint
  max_retries,       \* self.max_retries
  window_sensor,     \* self.window_sensor is configured
  trv_entities,      \* self.trv_entities: is the attribute there, and its list
  trv,               \* platform: setpoint attribute of each valve
  window,            \* platform: state of the window sensor
  verify_timers,     \* pending run_in(self.verify_trv_setpoint, 6)
  calls,             \* climate/set_temperature calls of the last callback
  notes,             \* notifier calls of the last callback
  last,              \* the last callback and how it ended
  day_call           \* a call of is_day_in_range and what it returned

vars == <<active, retry_count, expected_setpoint, max_retries, window_sensor,
          trv_entities, trv, window, verify_timers, calls,
          notes, last, day_call>>

Abs(x) == IF x < 0 THEN -x ELSE x

\* float(x) succeeds
CanFloat(x) == x >= 0

\* the controller as a callback sees it on entry.  sleeps counts the
\* run_in(lambda x: None, 1) timers the callback registers: their callback
\* does nothing, so they are counted where they are registered and not kept.
\* suspends counts the calls of suspend_listener, control lists the calls
\* of control_trv: their arguments and the flag they found.  active_writes
\* counts the climate/set_temperature calls made while self.active was true.
Ctl ==
  [active |-> active, retry_count |-> retry_count,
   expected_setpoint |-> expected_setpoint,
   verify_timers |-> verify_timers, sleeps |-> 0,
   calls |-> <<>>, notes |-> <<>>,
   skipped |-> FALSE, raised |-> FALSE, commanded |-> 0, outcome |-> "-",
   suspends |-> 0, control |-> <<>>, active_writes |-> 0]

\* an uncaught exception: the callback ends here
Raise(s) == [s EXCEPT !.raised = TRUE]

activate_listener(s) == [s EXCEPT !.active = TRUE]

suspend_listener(s) == [s EXCEPT !.active = FALSE, !.suspends = @ + 1]


\* ---- SetpointCommander ----

\* variant: the test of self.active (line 185) is left out
set_trv_setpoint_unguarded(s, setpoint) ==
  LET s1 == [s EXCEPT !.retry_count = 0, !.expected_setpoint = setpoint,
                      !.commanded = @ + 1]
      ids == trv_entities.ids
  IN IF ~trv_entities.defined THEN Raise(s1)
     ELSE [s1 EXCEPT
             !.calls = @ \o [i \in 1..Len(ids) |->
                               [entity_id |-> ids[i], temperature |-> setpoint]],
             !.active_writes = @ + (IF s.active THEN Len(ids) ELSE 0),
             !.sleeps = @ + (IF Len(ids) > 0 THEN Len(ids) - 1 ELSE 0),
             !.verify_timers = @ + 1]

\* set_trv_setpoint (lines 184-197).  Callers pass a value float() accepts.
\* self.trv_entities is read at line 191; extract_config never assigns it, so
\* where the attribute is missing the lookup raises AttributeError after
\* retry_count and expected_setpoint were assigned.
set_trv_setpoint(s, setpoint) ==
  IF s.active THEN s
  ELSE
    LET s1 == [s EXCEPT !.retry_count = 0, !.expected_setpoint = setpoint,
                        !.commanded = @ + 1]
        ids == trv_entities.ids
    IN IF ~trv_entities.defined THEN Raise(s1)
       ELSE [s1 EXCEPT
               !.calls = @ \o [i \in 1..Len(ids) |->
                                 [entity_id |-> ids[i], temperature |-> setpoint]],
               !.active_writes = @ + (IF s.active THEN Len(ids) ELSE 0),
               !.sleeps = @ + (IF Len(ids) > 0 THEN Len(ids) - 1 ELSE 0),
               !.verify_timers = @ + 1]

\* variant: a valve whose setpoint cannot be read is passed over
RECURSIVE error_messages_skip_unreadable(_, _)
error_messages_skip_unreadable(i, expected) ==
  IF i > Len(trv_configs) THEN <<>>
  ELSE
    LET id == trv_configs[i]
        current_setpoint == trv[id]
        rest == error_messages_skip_unreadable(i + 1, expected)
    IN IF CanFloat(current_setpoint)
            /\ 10 * Abs(current_setpoint - expected) >= 16
         THEN <<[entity_id |-> id, read_failed |-> FALSE,
                 expected |-> expected, got |-> current_setpoint]>> \o rest
       ELSE rest

\* variant: the loop stops at the first valve that failed
RECURSIVE error_messages_first_only(_, _)
error_messages_first_only(i, expected) ==
  IF i > Len(trv_configs) THEN <<>>
  ELSE
    LET id == trv_configs[i]
        current_setpoint == trv[id]
    IN IF ~CanFloat(current_setpoint)
         THEN <<[entity_id |-> id, read_failed |-> TRUE,
                 expected |-> NoValue, got |-> Unavailable]>>
       ELSE IF 10 * Abs(current_setpoint - expected) >= 16
         THEN <<[entity_id |-> id, read_failed |-> FALSE,
                 expected |-> expected, got |-> current_setpoint]>>
       ELSE error_messages_first_only(i + 1, expected)

\* the loop of lines 204-216: one message per valve that failed, in the order
\* of trv_configs ("Failed to read <id>" / "<id>: Expected <e>C, got <r>C")
RECURSIVE error_messages_from(_, _)
error_messages_from(i, expected) ==
  IF i > Len(trv_configs) THEN <<>>
  ELSE
    LET id == trv_configs[i]
        current_setpoint == trv[id]
        rest == error_messages_from(i + 1, expected)
    IN IF ~CanFloat(current_setpoint)
         THEN <<[entity_id |-> id, read_failed |-> TRUE,
                 expected |-> NoValue, got |-> Unavailable]>> \o rest
       ELSE IF 10 * Abs(current_setpoint - expected) >= 16
         THEN <<[entity_id |-> id, read_failed |-> FALSE,
                 expected |-> expected, got |-> current_setpoint]>> \o rest
       ELSE rest

\* send_ha_notification (lines 231-236); the notifier service call may fail
send_ha_notification(s, error_messages, notify_fails) ==
  LET sent == [s EXCEPT !.notes = @ \o
                 <<[expected |-> s.expected_setpoint, retries |-> max_retries,
                    errors |-> error_messages]>>]
  IN IF notify_fails THEN Raise(sent) ELSE sent

\* variant: a retry sends the command to the valves again
verify_trv_setpoint_resend(s, notify_fails) ==
  LET error_messages == error_messages_from(1, s.expected_setpoint)
      all_setpoints_correct == error_messages = <<>>
  IN IF all_setpoints_correct
       THEN activate_listener([s EXCEPT !.outcome = "ok"])
     ELSE
       LET s1 == [s EXCEPT !.retry_count = @ + 1]
       IN IF s1.retry_count < max_retries
            THEN [s1 EXCEPT !.outcome = "retry", !.verify_timers = @ + 1,
                            !.calls = @ \o [i \in 1..Len(trv_configs) |->
                                              [entity_id |-> trv_configs[i],
                                               temperature |-> s.expected_setpoint]]]
          ELSE
            LET s2 == send_ha_notification([s1 EXCEPT !.outcome = "max"],
                                           error_messages, notify_fails)
            IN IF s2.raised THEN s2 ELSE activate_listener(s2)

\* variant: every failed check sends the notification
verify_trv_setpoint_notify_each(s, notify_fails) ==
  LET error_messages == error_messages_from(1, s.expected_setpoint)
      all_setpoints_correct == error_messages = <<>>
  IN IF all_setpoints_correct
       THEN activate_listener([s EXCEPT !.outcome = "ok"])
     ELSE
       LET s1 == [s EXCEPT !.retry_count = @ + 1]
       IN IF s1.retry_count < max_retries
            THEN send_ha_notification(
                   [s1 EXCEPT !.outcome = "retry", !.verify_timers = @ + 1],
                   error_messages, FALSE)
          ELSE
            LET s2 == send_ha_notification([s1 EXCEPT !.outcome = "max"],
                                           error_messages, notify_fails)
            IN IF s2.raised THEN s2 ELSE activate_listener(s2)

\* variant: retry_count goes up by one for each valve that failed
verify_trv_setpoint_count_valves(s, notify_fails) ==
  LET error_messages == error_messages_from(1, s.expected_setpoint)
      all_setpoints_correct == error_messages = <<>>
  IN IF all_setpoints_correct
       THEN activate_listener([s EXCEPT !.outcome = "ok"])
     ELSE
       LET s1 == [s EXCEPT !.retry_count = @ + Len(error_messages)]
       IN IF s1.retry_count < max_retries
            THEN [s1 EXCEPT !.outcome = "retry", !.verify_timers = @ + 1]
          ELSE
            LET s2 == send_ha_notification([s1 EXCEPT !.outcome = "max"],
                                           error_messages, notify_fails)
            IN IF s2.raised THEN s2 ELSE activate_listener(s2)

\* verify_trv_setpoint (lines 200-229)
verify_trv_setpoint(s, notify_fails) ==
  LET error_messages == error_messages_from(1, s.expected_setpoint)
      all_setpoints_correct == error_messages = <<>>
  IN IF all_setpoints_correct
       THEN activate_listener([s EXCEPT !.outcome = "ok"])
     ELSE
       LET s1 == [s EXCEPT !.retry_count = @ + 1]
       IN IF s1.retry_count < max_retries
            THEN [s1 EXCEPT !.outcome = "retry", !.verify_timers = @ + 1]
          ELSE
            LET s2 == send_ha_notification([s1 EXCEPT !.outcome = "max"],
                                           error_messages, notify_fails)
            IN IF s2.raised THEN s2 ELSE activate_listener(s2)

\* ---- ThermostatController ----

\* get_trv_setpoint (lines 238-240): the first valve's setpoint
get_trv_setpoint == trv[trv_configs[1]]

\* variant: the two commands of the hysteresis test are exchanged
control_trv_exchanged(s0, target_temp, current_temp) ==
  LET s == [s0 EXCEPT !.control = @ \o
              <<[target_temp |-> target_temp, current_temp |-> current_temp,
                 active |-> s0.active]>>]
  IN
  IF ~CanFloat(get_trv_setpoint) \/ ~CanFloat(target_temp)
       \/ ~CanFloat(current_temp)
    THEN Raise(s)
  ELSE
    LET current_setpoint == get_trv_setpoint
        lower_bound == target_temp - temp_tol_min
        upper_bound == target_temp + temp_tol_max
        window_open == window_sensor /\ window = "on"
        \* lines 162-165: the branch that commands setpoint_off has no return
        s1 == IF window_open /\ current_setpoint # setpoint_off
                THEN set_trv_setpoint(s, setpoint_off)
              ELSE s
    IN IF window_open /\ current_setpoint = setpoint_off
         THEN activate_listener(s)
       ELSE IF s1.raised THEN s1
       ELSE IF current_setpoint \in {setpoint_on, setpoint_off}
         THEN IF current_temp < lower_bound /\ current_setpoint # setpoint_on
                THEN set_trv_setpoint(s1, setpoint_off)
              ELSE IF current_temp > upper_bound
                        /\ current_setpoint # setpoint_off
                THEN set_trv_setpoint(s1, setpoint_on)
              ELSE activate_listener(s1)
       ELSE activate_listener(s1)

\* variant: with the window open setpoint_off is commanded whatever the
\* valve reports
control_trv_window_always_commands(s0, target_temp, current_temp) ==
  LET s == [s0 EXCEPT !.control = @ \o
              <<[target_temp |-> target_temp, current_temp |-> current_temp,
                 active |-> s0.active]>>]
  IN
  IF ~CanFloat(get_trv_setpoint) \/ ~CanFloat(target_temp)
       \/ ~CanFloat(current_temp)
    THEN Raise(s)
  ELSE
    LET current_setpoint == get_trv_setpoint
        lower_bound == target_temp - temp_tol_min
        upper_bound == target_temp + temp_tol_max
        window_open == window_sensor /\ window = "on"
        s1 == IF window_open THEN set_trv_setpoint(s, setpoint_off) ELSE s
    IN IF s1.raised THEN s1
       ELSE IF current_setpoint \in {setpoint_on, setpoint_off}
         THEN IF current_temp < lower_bound /\ current_setpoint # setpoint_on
                THEN set_trv_setpoint(s1, setpoint_on)
              ELSE IF current_temp > upper_bound
                        /\ current_setpoint # setpoint_off
                THEN set_trv_setpoint(s1, setpoint_off)
              ELSE activate_listener(s1)
       ELSE activate_listener(s1)

\* variant: the hysteresis test does not look at the valve's mode
control_trv_rewrites_mode(s0, target_temp, current_temp) ==
  LET s == [s0 EXCEPT !.control = @ \o
              <<[target_temp |-> target_temp, current_temp |-> current_temp,
                 active |-> s0.active]>>]
  IN
  IF ~CanFloat(get_trv_setpoint) \/ ~CanFloat(target_temp)
       \/ ~CanFloat(current_temp)
    THEN Raise(s)
  ELSE
    LET current_setpoint == get_trv_setpoint
        lower_bound == target_temp - temp_tol_min
        upper_bound == target_temp + temp_tol_max
        window_open == window_sensor /\ window = "on"
        s1 == IF window_open /\ current_setpoint # setpoint_off
                THEN set_trv_setpoint(s, setpoint_off)
              ELSE s
    IN IF window_open /\ current_setpoint = setpoint_off
         THEN activate_listener(s)
       ELSE IF s1.raised THEN s1
       ELSE IF current_setpoint \in {setpoint_on, setpoint_off}
         THEN IF current_temp < lower_bound
                THEN set_trv_setpoint(s1, setpoint_on)
              ELSE IF current_temp > upper_bound
                THEN set_trv_setpoint(s1, setpoint_off)
              ELSE activate_listener(s1)
       ELSE activate_listener(s1)

\* variant: the hysteresis test is applied whatever setpoint the valve
\* reports
control_trv_any_state(s0, target_temp, current_temp) ==
  LET s == [s0 EXCEPT !.control = @ \o
              <<[target_temp |-> target_temp, current_temp |-> current_temp,
                 active |-> s0.active]>>]
  IN
  IF ~CanFloat(get_trv_setpoint) \/ ~CanFloat(target_temp)
       \/ ~CanFloat(current_temp)
    THEN Raise(s)
  ELSE
    LET current_setpoint == get_trv_setpoint
        lower_bound == target_temp - temp_tol_min
        upper_bound == target_temp + temp_tol_max
        window_open == window_sensor /\ window = "on"
        s1 == IF window_open /\ current_setpoint # setpoint_off
                THEN set_trv_setpoint(s, setpoint_off)
              ELSE s
    IN IF window_open /\ current_setpoint = setpoint_off
         THEN activate_listener(s)
       ELSE IF s1.raised THEN s1
       ELSE IF current_temp < lower_bound /\ current_setpoint # setpoint_on
         THEN set_trv_setpoint(s1, setpoint_on)
       ELSE IF current_temp > upper_bound /\ current_setpoint # setpoint_off
         THEN set_trv_setpoint(s1, setpoint_off)
       ELSE activate_listener(s1)

\* control_trv (lines 150-180)
control_trv(s0, target_temp, current_temp) ==
  LET s == [s0 EXCEPT !.control = @ \o
              <<[target_temp |-> target_temp, current_temp |-> current_temp,
                 active |-> s0.active]>>]
  IN
  IF ~CanFloat(get_trv_setpoint) \/ ~CanFloat(target_temp)
       \/ ~CanFloat(current_temp)
    THEN Raise(s)
  ELSE
    LET current_setpoint == get_trv_setpoint
        lower_bound == target_temp - temp_tol_min
        upper_bound == target_temp + temp_tol_max
        window_open == window_sensor /\ window = "on"
        \* lines 162-165: the branch that commands setpoint_off has no return
        s1 == IF window_open /\ current_setpoint # setpoint_off
                THEN set_trv_setpoint(s, setpoint_off)
              ELSE s
    IN IF window_open /\ current_setpoint = setpoint_off
         THEN activate_listener(s)
       ELSE IF s1.raised THEN s1
       ELSE IF current_setpoint \in {setpoint_on, setpoint_off}
         THEN IF current_temp < lower_bound /\ current_setpoint # setpoint_on
                THEN set_trv_setpoint(s1, setpoint_on)
              ELSE IF current_temp > upper_bound
                        /\ current_setpoint # setpoint_off
                THEN set_trv_setpoint(s1, setpoint_off)
              ELSE activate_listener(s1)
       ELSE activate_listener(s1)

\* variant: the search leaves out the last weekday
index_without_last(day) ==
  IF \E i \in 1..(Len(weekdays) - 1) : weekdays[i] = day
    THEN CHOOSE i \in 1..(Len(weekdays) - 1) : weekdays[i] = day
  ELSE 0

\* weekdays.index(day): 0 when the token is not a weekday (ValueError)
index(day) ==
  IF \E i \in 1..Len(weekdays) : weekdays[i] = day
    THEN CHOOSE i \in 1..Len(weekdays) : weekdays[i] = day
  ELSE 0

\* variant: the end day of a standard range is left out
is_day_in_range_end_excluded(day_range, current_day) ==
  LET current_day_index == index(current_day)
      start_index == index(day_range[1])
      end_index == index(day_range[Len(day_range)])
  IN IF current_day_index = 0 THEN FALSE
     ELSE IF start_index = 0 \/ end_index = 0 THEN FALSE
     ELSE IF start_index <= end_index
       THEN start_index <= current_day_index /\ current_day_index < end_index
     ELSE current_day_index >= start_index \/ current_day_index <= end_index

\* variant: a wraparound range is tested like a standard one
is_day_in_range_no_wraparound(day_range, current_day) ==
  LET current_day_index == index(current_day)
      start_index == index(day_range[1])
      end_index == index(day_range[Len(day_range)])
  IN IF current_day_index = 0 THEN FALSE
     ELSE IF start_index = 0 \/ end_index = 0 THEN FALSE
     ELSE IF start_index <= end_index
       THEN start_index <= current_day_index /\ current_day_index <= end_index
     ELSE current_day_index >= start_index /\ current_day_index <= end_index

\* variant: only the start token of the key is looked up under the try
is_day_in_range_end_unchecked(day_range, current_day) ==
  LET current_day_index == index(current_day)
      start_index == index(day_range[1])
      end_index == index(day_range[Len(day_range)])
  IN IF current_day_index = 0 THEN FALSE
     ELSE IF start_index = 0 THEN FALSE
     ELSE IF start_index <= end_index
       THEN start_index <= current_day_index /\ current_day_index <= end_index
     ELSE current_day_index >= start_index \/ current_day_index <= end_index

\* is_day_in_range (lines 106-133); day_range as split('_') leaves it
is_day_in_range(day_range, current_day) ==
  LET current_day_index == index(current_day)
      start_index == index(day_range[1])
      end_index == index(day_range[Len(day_range)])
  IN IF current_day_index = 0 THEN FALSE
     ELSE IF start_index = 0 \/ end_index = 0 THEN FALSE
     ELSE IF start_index <= end_index
       THEN start_index <= current_day_index /\ current_day_index <= end_index
     ELSE current_day_index >= start_index \/ current_day_index <= end_index

\* the self.log calls of is_day_in_range (lines 116 and 125): each ValueError
\* of weekdays.index is caught and logged before the return
is_day_in_range_log(day_range, current_day) ==
  IF index(current_day) = 0
    THEN <<[level |-> "WARNING", invalid |-> "current_day"]>>
  ELSE IF index(day_range[1]) = 0 \/ index(day_range[Len(day_range)]) = 0
    THEN <<[level |-> "WARNING", invalid |-> "day_range"]>>
  ELSE <<>>

\* ADAPI.now_is_between(start, end): both ends included, spans midnight
\* when end is before start
now_is_between(now, start, end) ==
  IF start <= end THEN start <= now /\ now <= end
  ELSE now >= start \/ now <= end

\* the inner loop of lines 93-99 over the entries of one key: the setpoints
\* of the entries whose window contains the time, in configured order
RECURSIVE matched_entries(_, _, _)
matched_entries(entries, e, now) ==
  IF e > Len(entries) THEN <<>>
  ELSE (IF now_is_between(now, entries[e].start, entries[e].end)
          THEN <<entries[e].setpoint>> ELSE <<>>)
       \o matched_entries(entries, e + 1, now)

\* the loops of lines 91-99: the setpoints of the entries that match, in the
\* order the loops visit them
RECURSIVE matched_setpoints(_, _, _)
matched_setpoints(p, today, now) ==
  IF p > Len(periods) THEN <<>>
  ELSE (IF is_day_in_range(periods[p].period_name, today)
          THEN matched_entries(periods[p].entries, 1, now) ELSE <<>>)
       \o matched_setpoints(p + 1, today, now)

\* variant of the loops: the scan ends with the first key that matches
\* the day, whether one of its windows contains the time or not
RECURSIVE first_key_setpoints(_, _, _)
first_key_setpoints(p, today, now) ==
  IF p > Len(periods) THEN <<>>
  ELSE IF is_day_in_range(periods[p].period_name, today)
    THEN matched_entries(periods[p].entries, 1, now)
  ELSE first_key_setpoints(p + 1, today, now)

\* variant: later keys are not consulted after the first key that matches
on_temperature_change_first_key_only(s, new, today, now) ==
  IF new # Unavailable
    THEN LET m == first_key_setpoints(1, today, now)
         IN IF m # <<>>
              THEN control_trv(suspend_listener([s EXCEPT !.outcome = "matched"]),
                               m[1], new)
            ELSE s
  ELSE [s EXCEPT !.outcome = "unavailable"]

\* variant: the reading is not compared with "unavailable"
on_temperature_change_unchecked(s, new, today, now) ==
  LET m == matched_setpoints(1, today, now)
  IN IF m # <<>>
       THEN control_trv(suspend_listener([s EXCEPT !.outcome = "matched"]),
                        m[1], new)
     ELSE s

\* variant: the last entry that matches is taken
on_temperature_change_last_match(s, new, today, now) ==
  IF new # Unavailable
    THEN LET m == matched_setpoints(1, today, now)
         IN IF m # <<>>
              THEN control_trv(suspend_listener([s EXCEPT !.outcome = "matched"]),
                               m[Len(m)], new)
            ELSE s
  ELSE [s EXCEPT !.outcome = "unavailable"]

\* variant: the listener is suspended before the schedule is scanned
on_temperature_change_suspend_early(s, new, today, now) ==
  IF new # Unavailable
    THEN LET m == matched_setpoints(1, today, now)
             s1 == suspend_listener(s)
         IN IF m # <<>>
              THEN control_trv([s1 EXCEPT !.outcome = "matched"], m[1], new)
            ELSE s1
  ELSE [s EXCEPT !.outcome = "unavailable"]

\* on_temperature_change (lines 86-104); outcome tells the log line of line
\* 96 ("Matched period") from that of line 104 ("The <entity> is <new>")
on_temperature_change(s, new, today, now) ==
  IF new # Unavailable
    THEN LET m == matched_setpoints(1, today, now)
         IN IF m # <<>>
              THEN control_trv(suspend_listener([s EXCEPT !.outcome = "matched"]),
                               m[1], new)
            ELSE s
  ELSE [s EXCEPT !.outcome = "unavailable"]

\* variant: a closed window commands the valves on
on_window_change_close_commands(s, new) ==
  IF new = "on" THEN set_trv_setpoint(suspend_listener(s), setpoint_off)
  ELSE IF new = "off" THEN set_trv_setpoint(suspend_listener(s), setpoint_on)
  ELSE s

\* on_window_change (lines 137-146)
on_window_change(s, new) ==
  IF new = "on" THEN set_trv_setpoint(suspend_listener(s), setpoint_off)
  ELSE s

\* variant: the previous value is restored whatever it was
on_trv_setpoint_change_restore_any(s, old, new) ==
  IF ~CanFloat(new) THEN Raise(s)
  ELSE IF new \notin {setpoint_on, setpoint_off}
    THEN LET s1 == suspend_listener(s)
         IN IF ~CanFloat(old) THEN Raise(s1)
            ELSE set_trv_setpoint(s1, old)
  ELSE s

\* variant: only setpoint_off is taken for the controller's own value
on_trv_setpoint_change_on_is_override(s, old, new) ==
  IF ~CanFloat(new) THEN Raise(s)
  ELSE IF new # setpoint_off
    THEN LET s1 == suspend_listener(s)
         IN IF ~CanFloat(old) THEN Raise(s1)
            ELSE IF old \in {setpoint_on, setpoint_off}
              THEN set_trv_setpoint(s1, old)
            ELSE set_trv_setpoint(s1, setpoint_off)
  ELSE s

\* on_trv_setpoint_change (lines 73-82)
on_trv_setpoint_change(s, old, new) ==
  IF ~CanFloat(new) THEN Raise(s)
  ELSE IF new \notin {setpoint_on, setpoint_off}
    THEN LET s1 == suspend_listener(s)
         IN IF ~CanFloat(old) THEN Raise(s1)
            ELSE IF old \in {setpoint_on, setpoint_off}
              THEN set_trv_setpoint(s1, old)
            ELSE set_trv_setpoint(s1, setpoint_off)
  ELSE s

\* ---- OverrideGuard ----

\* variant: the wrapped call is made whatever the flag
requires_active_listener_unguarded(s, r) == r

\* requires_active_listener (decorators.py lines 50-57): r is the wrapped call
requires_active_listener(s, r) ==
  IF ~s.active THEN [s EXCEPT !.skipped = TRUE] ELSE r

\* ---- the callbacks as steps ----

Handlers == {"on_temperature_change", "on_window_change",
             "on_trv_setpoint_change"}

\* the callback op ended in r; last keeps the targets of its control_trv calls
Return(op, entity, r) ==
  /\ r.verify_timers <= MaxTimers
  /\ active' = r.active
  /\ retry_count' = r.retry_count
  /\ expected_setpoint' = r.expected_setpoint
  /\ verify_timers' = r.verify_timers
  /\ calls' = r.calls
  /\ notes' = r.notes
  /\ last' = [op |-> op, entity |-> entity, skipped |-> r.skipped,
              raised |-> r.raised, commanded |-> r.commanded,
              sleeps |-> r.sleeps, outcome |-> r.outcome,
              suspends |-> r.suspends, active_writes |-> r.active_writes,
              control |-> [i \in 1..Len(r.control) |->
                             r.control[i].target_temp]]
  /\ UNCHANGED <<max_retries, window_sensor, trv_entities, day_call>>

\* initialize (lines 35-59) after extract_config (lines 9-32)
Init ==
  /\ active = TRUE
  /\ retry_count = retry_count_cfg
  /\ expected_setpoint = NoValue
  /\ max_retries \in 0..MaxRetriesCfg
  /\ window_sensor \in BOOLEAN
  /\ trv_entities \in {[defined |-> FALSE, ids |-> <<>>],
                       [defined |-> TRUE, ids |-> trv_configs]}
  /\ trv \in [Trvs -> Readings]
  /\ window \in (IF window_sensor THEN WindowStates ELSE {"off"})
  /\ verify_timers = 0
  /\ calls = <<>>
  /\ notes = <<>>
  /\ last = [op |-> "initialize", entity |-> 0, skipped |-> FALSE,
             raised |-> FALSE, commanded |-> 0, sleeps |-> 0,
             outcome |-> "-", suspends |-> 0, control |-> <<>>,
             active_writes |-> 0]
  /\ day_call = [day_range |-> <<>>, current_day |-> "", result |-> FALSE,
                 log |-> <<>>]

\* the temperature sensor changes state
TemperatureChange ==
  \E new \in Temps, clock \in Clocks :
    /\ Return("on_temperature_change", 0,
              requires_active_listener(Ctl,
                on_temperature_change(Ctl, new, clock.today, clock.now)))
    /\ UNCHANGED <<trv, window>>

\* the window sensor changes state (subscribed only when configured)
WindowChange ==
  /\ window_sensor
  /\ \E new \in WindowStates \ {window} :
       /\ window' = new
       /\ Return("on_window_change", 0,
                 requires_active_listener(Ctl, on_window_change(Ctl, new)))
       /\ UNCHANGED trv

\* the setpoint attribute of a valve changes
TrvSetpointChange ==
  \E id \in Trvs :
    \E new \in Readings \ {trv[id]} :
      /\ trv' = [trv EXCEPT ![id] = new]
      /\ Return("on_trv_setpoint_change", id,
                requires_active_listener(Ctl,
                  on_trv_setpoint_change(Ctl, trv[id], new)))
      /\ UNCHANGED window

\* a verification timer fires
VerifyTimer ==
  /\ verify_timers > 0
  /\ \E notify_fails \in BOOLEAN :
       Return("verify_trv_setpoint", 0,
              verify_trv_setpoint(
                [Ctl EXCEPT !.verify_timers = @ - 1], notify_fails))
  /\ UNCHANGED <<trv, window>>

Next ==
  \/ TemperatureChange
  \/ WindowChange
  \/ TrvSetpointChange
  \/ VerifyTimer

Spec == Init /\ [][Next]_vars

\* the scheduler fires every timer it holds
FairSpec == Spec /\ WF_vars(VerifyTimer)

\* ---- set_trv_setpoint called on its own ----

\* set_trv_setpoint is called without a handler around it (as a test or
\* another method of the app would call it), with one of the two setpoints
SetTrvSetpointCall ==
  /\ \E setpoint \in {setpoint_on, setpoint_off} :
       Return("set_trv_setpoint", 0, set_trv_setpoint(Ctl, setpoint))
  /\ UNCHANGED <<trv, window>>

\* the callbacks, and calls of set_trv_setpoint on its own
CmdSpec == Init /\ [][Next \/ SetTrvSetpointCall]_vars

\* ---- is_day_in_range on its own ----

\* day tokens: the seven weekdays and one that is none of them
DayTokens == {weekdays[i] : i \in 1..Len(weekdays)} \cup {"foo"}

\* day-range keys of one token and of two tokens
DayRanges == {<<a>> : a \in DayTokens} \cup (DayTokens \X DayTokens)

\* the controller of one configuration, before any event
DayInit ==
  /\ Init
  /\ max_retries = MaxRetriesCfg
  /\ ~window_sensor
  /\ ~trv_entities.defined
  /\ trv = [id \in Trvs |-> setpoint_off]

\* is_day_in_range is called with a key and a day
DayInRangeCall ==
  /\ \E day_range \in DayRanges, current_day \in DayTokens :
       day_call' = [day_range |-> day_range, current_day |-> current_day,
                    result |-> is_day_in_range(day_range, current_day),
                    log |-> is_day_in_range_log(day_range, current_day)]
  /\ UNCHANGED <<active, retry_count, expected_setpoint, max_retries,
                 window_sensor, trv_entities, trv, window, verify_timers,
                 calls, notes, last>>

DaySpec == DayInit /\ [][DayInRangeCall]_vars

TypeOK ==
  /\ active \in BOOLEAN
  /\ retry_count \in 0..(MaxRetriesCfg + retry_count_cfg)
  /\ verify_timers \in 0..MaxTimers

\* ---- the claims ----

C3_CycleEndsActive == (last.commanded > 0 /\ ~active) ~> active

\* C4: while active = FALSE each of the three event handlers is a no-op: no
\* device write, no timer, no notification, and active, retry_count and
\* expected_setpoint unchanged.
C4_SuspendedHandlersAreNoOps ==
  [][(~active /\ last'.op \in Handlers)
       => /\ last'.skipped
          /\ calls' = <<>>
          /\ notes' = <<>>
          /\ last'.sleeps = 0
          /\ last'.commanded = 0
          /\ UNCHANGED <<active, retry_count, expected_setpoint,
                         verify_timers>>]_vars

\* a handler was called while the listener was suspended
C4_Witness ==
  /\ last.op = "on_trv_setpoint_change"
  /\ last.skipped
  /\ ~active
  /\ verify_timers > 0

AllWithinTolerance(e) ==
  \A id \in Trvs : trv[id] # Unavailable /\ 10 * Abs(trv[id] - e) <= 16

Named(n) == {n.errors[i].entity_id : i \in 1..Len(n.errors)}

\* C7: when the retry budget is exhausted the failure notification lists
\* every valve that failed the last check (unreadable, or out of tolerance
\* with its last-seen value) and no valve that had converged.
C7_NotificationNamesFailedValves ==
  [][(last'.op = "verify_trv_setpoint" /\ last'.outcome = "max")
       => /\ Len(notes') = 1
          /\ Named(notes'[1])
               = {id \in Trvs : \/ trv[id] = Unavailable
                                \/ 10 * Abs(trv[id] - expected_setpoint) > 16}
          /\ Len(notes'[1].errors) = Cardinality(Named(notes'[1]))
          /\ notes'[1].expected = expected_setpoint
          /\ \A i \in 1..Len(notes'[1].errors) :
               LET e == notes'[1].errors[i]
               IN IF trv[e.entity_id] = Unavailable THEN e.read_failed
                  ELSE /\ ~e.read_failed
                       /\ e.got = trv[e.entity_id]
                       /\ e.expected = expected_setpoint]_vars

\* the budget ran out with one valve converged and another not
C7_Witness ==
  /\ last.op = "verify_trv_setpoint"
  /\ last.outcome = "max"
  /\ Len(notes) = 1
  /\ \E a, b \in Trvs :
       /\ a \notin Named(notes[1])
       /\ b \in Named(notes[1])
       /\ trv[a] # expected_setpoint
       /\ trv[b] # Unavailable

\* C8: every setpoint value the controller writes to a valve is setpoint_on
\* or setpoint_off.
C8_WritesOnlyOnOrOff ==
  \A i \in 1..Len(calls) :
    calls[i].temperature \in {setpoint_on, setpoint_off}

\* the recovery from a manual override wrote to the valves
C8_Witness ==
  /\ last.op = "on_trv_setpoint_change"
  /\ calls # <<>>
  /\ calls[1].temperature = setpoint_on

\* the setpoint written to every valve, in the order of trv_configs
WriteToAll(setpoint) ==
  [i \in 1..Len(trv_configs) |->
     [entity_id |-> trv_configs[i], temperature |-> setpoint]]

\* C9: a valve setpoint change arriving while active, to a value that is
\* neither setpoint_on nor setpoint_off, from a previous value that is one of
\* them, suspends the controller and issues a corrective write of the
\* previous value, which starts a verification cycle expecting that value.
C9_RestoresRecognizedPrevious ==
  [][(/\ active
      /\ last'.op = "on_trv_setpoint_change"
      /\ trv'[last'.entity] # Unavailable
      /\ trv'[last'.entity] \notin {setpoint_on, setpoint_off}
      /\ trv[last'.entity] \in {setpoint_on, setpoint_off})
       => /\ ~active'
          /\ calls' = WriteToAll(trv[last'.entity])
          /\ expected_setpoint' = trv[last'.entity]
          /\ retry_count' = 0
          /\ verify_timers' = verify_timers + 1]_vars

\* C10: a valve setpoint change arriving while active, when neither the new
\* nor the previous value is setpoint_on or setpoint_off, suspends the
\* controller and issues a corrective write of setpoint_off, which starts a
\* verification cycle expecting setpoint_off.
C10_UnrecognizedPreviousForcesOff ==
  [][(/\ active
      /\ last'.op = "on_trv_setpoint_change"
      /\ trv'[last'.entity] # Unavailable
      /\ trv'[last'.entity] \notin {setpoint_on, setpoint_off}
      /\ trv[last'.entity] # Unavailable
      /\ trv[last'.entity] \notin {setpoint_on, setpoint_off})
       => /\ ~active'
          /\ calls' = WriteToAll(setpoint_off)
          /\ expected_setpoint' = setpoint_off
          /\ retry_count' = 0
          /\ verify_timers' = verify_timers + 1]_vars

\* ---- the claims on is_day_in_range (checked under DaySpec) ----

\* position of a weekday in the week, mon first
Ord(day) ==
  CASE day = "mon" -> 0 [] day = "tue" -> 1 [] day = "wed" -> 2
    [] day = "thu" -> 3 [] day = "fri" -> 4 [] day = "sat" -> 5
    [] day = "sun" -> 6

WeekdayNames == {"mon", "tue", "wed", "thu", "fri", "sat", "sun"}

\* the call recorded in day_call has weekdays for its key's ends and its day
CalledWithWeekdays ==
  /\ day_call.day_range # <<>>
  /\ day_call.day_range[1] \in WeekdayNames
  /\ day_call.day_range[Len(day_call.day_range)] \in WeekdayNames
  /\ day_call.current_day \in WeekdayNames

StartOrd == Ord(day_call.day_range[1])
EndOrd == Ord(day_call.day_range[Len(day_call.day_range)])
DayOrd == Ord(day_call.current_day)

\* C18: for a key a_b with index(a) <= index(b), a single-token key
\* included, is_day_in_range is true exactly when
\* index(a) <= index(d) <= index(b).
C18_StandardRange ==
  (CalledWithWeekdays /\ StartOrd <= EndOrd)
    => (day_call.result <=> (StartOrd <= DayOrd /\ DayOrd <= EndOrd))

\* tue_fri was asked about its end day
C18_Witness ==
  /\ day_call.day_range = <<"tue", "fri">>
  /\ day_call.current_day = "fri"
  /\ day_call.result

\* C19: for a key a_b with index(a) > index(b), is_day_in_range is true
\* exactly when index(d) >= index(a) or index(d) <= index(b).
C19_WraparoundRange ==
  (CalledWithWeekdays /\ StartOrd > EndOrd)
    => (day_call.result <=> (DayOrd >= StartOrd \/ DayOrd <= EndOrd))

\* sat_tue was asked about mon
C19_Witness ==
  /\ day_call.day_range = <<"sat", "tue">>
  /\ day_call.current_day = "mon"
  /\ day_call.result

\* C20: the key mon_sun matches every one of the seven weekdays.
C20_FullWeek ==
  (day_call.day_range = <<"mon", "sun">>
     /\ day_call.current_day \in WeekdayNames)
    => day_call.result

\* mon_sun was asked about sun
C20_Witness ==
  /\ day_call.day_range = <<"mon", "sun">>
  /\ day_call.current_day = "sun"
  /\ day_call.result

\* C21: an invalid day-range endpoint token or an invalid current-day token
\* always makes is_day_in_range return false and emit one WARNING-level log;
\* the call returns to its caller.
C21_InvalidTokenIsFalseWithWarning ==
  (/\ day_call.day_range # <<>>
   /\ \/ day_call.day_range[1] \notin WeekdayNames
      \/ day_call.day_range[Len(day_call.day_range)] \notin WeekdayNames
      \/ day_call.current_day \notin WeekdayNames)
    => /\ day_call.result = FALSE
       /\ Len(day_call.log) = 1
       /\ day_call.log[1].level = "WARNING"

\* tue_foo was asked about wed: false, with the warning about the key
C21_Witness ==
  /\ day_call.day_range = <<"tue", "foo">>
  /\ day_call.current_day = "wed"
  /\ ~day_call.result
  /\ day_call.log = <<[level |-> "WARNING", invalid |-> "day_range"]>>

\* ---- the claims on the temperature event ----

\* what on_temperature_change does in this state with a reading and a clock
OnTemperature(new, clock) ==
  requires_active_listener(Ctl,
    on_temperature_change(Ctl, new, clock.today, clock.now))

\* the (key, window) pairs of the schedule, by their positions
Pairs ==
  {x \in (1..Len(periods)) \X (1..3) : x[2] <= Len(periods[x[1]].entries)}

\* the pairs whose key matches the day and whose window contains the time
MatchingPairs(clock) ==
  {x \in Pairs :
     /\ is_day_in_range(periods[x[1]].period_name, clock.today)
     /\ now_is_between(clock.now, periods[x[1]].entries[x[2]].start,
                       periods[x[1]].entries[x[2]].end)}

\* x comes before y in configured order
Before(x, y) == x[1] < y[1] \/ (x[1] = y[1] /\ x[2] < y[2])

\* the setpoint of the first matching pair
FirstMatchSetpoint(clock) ==
  LET x == CHOOSE x \in MatchingPairs(clock) :
             \A y \in MatchingPairs(clock) : y = x \/ Before(x, y)
  IN periods[x[1]].entries[x[2]].setpoint

\* C11: on a temperature event while active the schedule is resolved
\* first-match-wins: control_trv is invoked exactly once, with the setpoint
\* of the first (key, window) pair in configured order that matches and the
\* new temperature, after the listener was suspended exactly once.
C11_FirstMatchWins ==
  active =>
    \A clock \in Clocks :
      MatchingPairs(clock) # {} =>
        LET first == FirstMatchSetpoint(clock)
        IN \A new \in Temps \ {Unavailable} :
             LET r == OnTemperature(new, clock)
             IN /\ r.suspends = 1
                /\ Len(r.control) = 1
                /\ r.control[1].target_temp = first
                /\ r.control[1].current_temp = new
                /\ r.control[1].active = FALSE

\* control_trv was called with 19.0, the setpoint of a pair after which
\* another pair of the schedule matches too (mon 07:00 or wed 12:00)
C11_Witness ==
  /\ last.op = "on_temperature_change"
  /\ last.outcome = "matched"
  /\ last.control = <<304>>
  /\ last.suspends = 1
  /\ \E clock \in Clocks :
       /\ Cardinality(MatchingPairs(clock)) > 1
       /\ FirstMatchSetpoint(clock) = 304

\* C12: on a temperature event for which no (key, window) pair matches, the
\* controller takes no action: the listener stays active, control_trv is
\* not invoked, no device write is issued and no timer is scheduled.
C12_NoMatchNoAction ==
  active =>
    \A clock \in Clocks :
      MatchingPairs(clock) = {} =>
        \A new \in Temps :
          LET r == OnTemperature(new, clock)
          IN
           /\ r.active
           /\ r.suspends = 0
           /\ r.control = <<>>
           /\ r.commanded = 0
           /\ r.calls = <<>>
           /\ r.notes = <<>>
           /\ r.sleeps = 0
           /\ r.verify_timers = verify_timers
           /\ r.retry_count = retry_count
           /\ r.expected_setpoint = expected_setpoint
           /\ ~r.raised

\* a temperature event found no match and the handler returned
C12_Witness ==
  /\ last.op = "on_temperature_change"
  /\ ~last.skipped
  /\ last.outcome = "-"
  /\ last.control = <<>>
  /\ active
  /\ \E clock \in Clocks : MatchingPairs(clock) = {}

\* ---- the claims on the commit logic (control_trv) ----

\* the window sensor is configured and reports open
WindowOpen == window_sensor /\ window = "on"

\* the temperature events that reach control_trv: a reading and a clock
CommitInputs == {x \in Temps \X Clocks : MatchingPairs(x[2]) # {}}

\* control_trv as the temperature event x runs it in this state
Commit(x) == OnTemperature(x[1], x[2])

\* the target_temp control_trv is given by the temperature event x
Target(x) == FirstMatchSetpoint(x[2])

\* C13: with no window open, whenever the current temperature is strictly
\* below target - toleranceBelow, the commit logic issues the mode=on
\* command (set_trv_setpoint(setpoint_on)) exactly once.  Read for a valve
\* whose setpoint is a number.
C13_ColdCommandsOn ==
  (active /\ ~WindowOpen /\ get_trv_setpoint >= 0) =>
    \A x \in CommitInputs :
      (x[1] >= 0 /\ x[1] < Target(x) - temp_tol_min)
        => /\ Commit(x).commanded = 1
           /\ Commit(x).expected_setpoint = setpoint_on

\* C13 as amended: the same when the first valve reports setpoint_off.
C13_ColdCommandsOnFromOff ==
  (active /\ ~WindowOpen /\ get_trv_setpoint = setpoint_off) =>
    \A x \in CommitInputs :
      (x[1] >= 0 /\ x[1] < Target(x) - temp_tol_min)
        => /\ Commit(x).commanded = 1
           /\ Commit(x).expected_setpoint = setpoint_on
           /\ ~Commit(x).active
           /\ trv_entities.defined
                => /\ Commit(x).calls = WriteToAll(setpoint_on)
                   /\ Commit(x).verify_timers = verify_timers + 1

\* a temperature event found the valve off and the room cold, and
\* commanded setpoint_on
C13_Witness ==
  /\ last.op = "on_temperature_change"
  /\ last.control # <<>>
  /\ last.commanded = 1
  /\ ~WindowOpen
  /\ get_trv_setpoint = setpoint_off
  /\ expected_setpoint = setpoint_on
  /\ calls = WriteToAll(setpoint_on)

\* C14: with no window open, whenever the current temperature is strictly
\* above target + toleranceAbove, the commit logic issues the mode=off
\* command (set_trv_setpoint(setpoint_off)) exactly once.  Read for a valve
\* whose setpoint is a number.
C14_HotCommandsOff ==
  (active /\ ~WindowOpen /\ get_trv_setpoint >= 0) =>
    \A x \in CommitInputs :
      (x[1] >= 0 /\ x[1] > Target(x) + temp_tol_max)
        => /\ Commit(x).commanded = 1
           /\ Commit(x).expected_setpoint = setpoint_off

\* C14 as amended: the same when the first valve reports setpoint_on.
C14_HotCommandsOffFromOn ==
  (active /\ ~WindowOpen /\ get_trv_setpoint = setpoint_on) =>
    \A x \in CommitInputs :
      (x[1] >= 0 /\ x[1] > Target(x) + temp_tol_max)
        => /\ Commit(x).commanded = 1
           /\ Commit(x).expected_setpoint = setpoint_off
           /\ ~Commit(x).active
           /\ trv_entities.defined
                => /\ Commit(x).calls = WriteToAll(setpoint_off)
                   /\ Commit(x).verify_timers = verify_timers + 1

\* a temperature event found the valve on and the room hot, and
\* commanded setpoint_off
C14_Witness ==
  /\ last.op = "on_temperature_change"
  /\ last.control # <<>>
  /\ last.commanded = 1
  /\ ~WindowOpen
  /\ get_trv_setpoint = setpoint_on
  /\ expected_setpoint = setpoint_off
  /\ calls = WriteToAll(setpoint_off)

\* C15: with no window open, when lowerBound <= current temperature <=
\* upperBound, the commit logic issues no command, starts no verification
\* cycle and reactivates the listener at once.
C15_InBandNoCommand ==
  (active /\ ~WindowOpen) =>
    \A x \in CommitInputs :
      (Target(x) - temp_tol_min <= x[1] /\ x[1] <= Target(x) + temp_tol_max)
        => /\ Commit(x).commanded = 0
           /\ Commit(x).calls = <<>>
           /\ Commit(x).verify_timers = verify_timers
           /\ Commit(x).active

C22_CommandWritesEveryValve ==
  [][last'.commanded = 1
       => /\ expected_setpoint' \in {setpoint_on, setpoint_off}
          /\ calls' = WriteToAll(expected_setpoint')
          /\ retry_count' = 0
          /\ ~active'
          /\ verify_timers' = verify_timers + 1]_vars

C24_ReadErrorsContained ==
  [][(/\ active
      /\ \/ /\ last'.op = "on_temperature_change"
            /\ last'.control # <<>>
            /\ ~CanFloat(get_trv_setpoint)
         \/ /\ last'.op = "on_trv_setpoint_change"
            /\ \/ ~CanFloat(trv[last'.entity])
               \/ ~CanFloat(trv'[last'.entity]))
       => /\ last'.commanded = 0
          /\ calls' = <<>>
          /\ active' \/ verify_timers' > 0]_vars

C26_NotifiedOncePerExhaustedCycle ==
  [][/\ Len(notes') = (IF last'.op = "verify_trv_setpoint"
                           /\ last'.outcome = "max" THEN 1 ELSE 0)
     /\ last'.op = "verify_trv_setpoint"
          => /\ last'.outcome \in {"ok", "retry", "max"}
             /\ last'.outcome = "ok" <=> AllWithinTolerance(expected_setpoint)
             /\ last'.outcome = "max"
                  => /\ verify_timers' = verify_timers - 1
                     /\ retry_count' >= max_retries
             /\ last'.outcome = "retry"
                  => /\ verify_timers' = verify_timers
                     /\ retry_count' < max_retries]_vars

\* a cycle was re-checked, failed again and was notified once
C26_Witness ==
  /\ last.op = "verify_trv_setpoint"
  /\ last.outcome = "max"
  /\ Len(notes) = 1
  /\ max_retries = 2
  /\ retry_count = 2
  /\ verify_timers = 0

\* C27: one verification check over all valves is a single retry unit: a
\* failed check increases retry_count by exactly 1 however many valves
\* failed and whether a failure was an unreadable or an out-of-tolerance
\* value; a check that succeeds leaves retry_count as it was.
C27_FailedCheckCountsOnce ==
  [][last'.op = "verify_trv_setpoint"
       => retry_count' = (IF AllWithinTolerance(expected_setpoint)
                            THEN retry_count ELSE retry_count + 1)]_vars

\* a first check failed with one valve unreadable and another out of
\* tolerance, and retry_count is 1
C27_Witness ==
  /\ last.op = "verify_trv_setpoint"
  /\ last.outcome \in {"retry", "max"}
  /\ retry_count = 1
  /\ \E a, b \in Trvs :
       /\ trv[a] = Unavailable
       /\ trv[b] # Unavailable
       /\ 10 * Abs(trv[b] - expected_setpoint) > 16

\* ---- the claims on later keys and on the window event ----

\* the first key in configured order that matches the day has no window
\* containing the time
FirstKeyHasNoWindow(clock) ==
  \E p \in 1..Len(periods) :
    /\ is_day_in_range(periods[p].period_name, clock.today)
    /\ \A q \in 1..(p - 1) :
         ~is_day_in_range(periods[q].period_name, clock.today)
    /\ \A x \in MatchingPairs(clock) : x[1] # p

\* C28: if the first day-range key that matches today has no time window
\* containing the current time, later keys are not consulted and the
\* temperature event results in no action, even when a later key matching
\* today has a window containing the current time.
C28_LaterKeysNotConsulted ==
  active =>
    \A clock \in Clocks :
      FirstKeyHasNoWindow(clock) =>
        \A new \in Temps \ {Unavailable} :
          LET r == OnTemperature(new, clock)
          IN /\ r.control = <<>>
             /\ r.suspends = 0
             /\ r.active

\* C28 as amended: in that case the scan goes on with the later keys; the
\* event results in no action only when no later key matching today has a
\* window containing the time, and otherwise control_trv is called once
\* with the setpoint of the first matching pair of the later keys.
C28_LaterKeysConsulted ==
  active =>
    \A clock \in Clocks :
      FirstKeyHasNoWindow(clock) =>
        \A new \in Temps \ {Unavailable} :
          LET r == OnTemperature(new, clock)
          IN IF MatchingPairs(clock) = {}
               THEN r.control = <<>> /\ r.suspends = 0 /\ r.active
             ELSE /\ r.suspends = 1
                  /\ Len(r.control) = 1
                  /\ r.control[1].target_temp = FirstMatchSetpoint(clock)

\* control_trv was called with 21.0, the setpoint of sat_tue, which the
\* schedule reaches only on mon 12:00, after the key mon had no window
C28_Witness ==
  /\ last.op = "on_temperature_change"
  /\ last.control = <<336>>
  /\ \E clock \in Clocks :
       /\ FirstKeyHasNoWindow(clock)
       /\ MatchingPairs(clock) # {}
       /\ FirstMatchSetpoint(clock) = 336
  /\ \A clock \in Clocks :
       (MatchingPairs(clock) # {} /\ FirstMatchSetpoint(clock) = 336)
         => FirstKeyHasNoWindow(clock)

\* C29: a window-open event while active suspends the controller and
\* commands setpoint_off to the valves, starting a verification cycle with
\* expected_setpoint = setpoint_off, whatever the schedule and temperature.
C29_WindowOpenCommandsOff ==
  [][(active /\ last'.op = "on_window_change" /\ window' = "on")
       => /\ ~active'
          /\ last'.commanded = 1
          /\ calls' = WriteToAll(setpoint_off)
          /\ expected_setpoint' = setpoint_off
          /\ retry_count' = 0
          /\ verify_timers' = verify_timers + 1]_vars

\* C30: a window-closed event while active issues no command and schedules
\* no timer, and leaves active, retry_count and expected_setpoint unchanged.
C30_WindowClosedNoAction ==
  [][(active /\ last'.op = "on_window_change" /\ window' = "off")
       => /\ ~last'.skipped
          /\ last'.commanded = 0
          /\ last'.suspends = 0
          /\ last'.sleeps = 0
          /\ calls' = <<>>
          /\ notes' = <<>>
          /\ UNCHANGED <<active, retry_count, expected_setpoint,
                         verify_timers>>]_vars

\* the window was closed after the cycle that turned the valves off for
\* it had been verified: the handler ran and the valves stay off
C30_Witness ==
  /\ last.op = "on_window_change"
  /\ ~last.skipped
  /\ window = "off"
  /\ active
  /\ expected_setpoint = setpoint_off
  /\ retry_count = 0
  /\ verify_timers = 0
  /\ \A id \in Trvs : trv[id] = setpoint_off

\* ---- further claims on the commit logic and the handlers ----

\* C31: with the window open and the valve already at setpoint_off the
\* commit logic issues no command, starts no verification cycle and
\* reactivates the listener, for every target and numeric temperature.
C31_WindowOpenAlreadyOff ==
  (active /\ WindowOpen /\ get_trv_setpoint = setpoint_off) =>
    \A x \in CommitInputs :
      x[1] >= 0
        => /\ Len(Commit(x).control) = 1
           /\ Commit(x).commanded = 0
           /\ Commit(x).calls = <<>>
           /\ Commit(x).sleeps = 0
           /\ Commit(x).verify_timers = verify_timers
           /\ Commit(x).retry_count = retry_count
           /\ Commit(x).expected_setpoint = expected_setpoint
           /\ Commit(x).active
           /\ ~Commit(x).raised

\* a temperature event reached control_trv with the window open and the
\* valve off: nothing was commanded and the listener is active
C31_Witness ==
  /\ last.op = "on_temperature_change"
  /\ last.control # <<>>
  /\ last.suspends = 1
  /\ last.commanded = 0
  /\ ~last.raised
  /\ WindowOpen
  /\ get_trv_setpoint = setpoint_off
  /\ active
  /\ calls = <<>>

\* C32: a temperature event whose new reading is "unavailable" takes no
\* action: the handler goes to the log of line 104 without evaluating the
\* schedule, the listener is not suspended, and no command or timer is
\* issued.
C32_UnavailableReadingNoAction ==
  active =>
    \A clock \in Clocks :
      LET r == OnTemperature(Unavailable, clock)
      IN /\ r.outcome = "unavailable"
         /\ r.suspends = 0
         /\ r.control = <<>>
         /\ r.commanded = 0
         /\ r.calls = <<>>
         /\ r.notes = <<>>
         /\ r.sleeps = 0
         /\ r.verify_timers = verify_timers
         /\ r.retry_count = retry_count
         /\ r.expected_setpoint = expected_setpoint
         /\ r.active
         /\ ~r.raised

\* an "unavailable" reading was handled while the listener was active
C32_Witness ==
  /\ last.op = "on_temperature_change"
  /\ ~last.skipped
  /\ last.outcome = "unavailable"
  /\ last.control = <<>>
  /\ active

\* C33: a valve setpoint change observed while active whose new value is
\* setpoint_on or setpoint_off is not treated as a manual override: the
\* controller stays active, issues no write and schedules no check.
C33_OnOrOffIsNoOverride ==
  [][(/\ active
      /\ last'.op = "on_trv_setpoint_change"
      /\ trv'[last'.entity] \in {setpoint_on, setpoint_off})
       => /\ ~last'.skipped
          /\ ~last'.raised
          /\ last'.suspends = 0
          /\ last'.commanded = 0
          /\ last'.sleeps = 0
          /\ calls' = <<>>
          /\ notes' = <<>>
          /\ active'
          /\ UNCHANGED <<retry_count, expected_setpoint, verify_timers>>]_vars

\* a valve went to setpoint_on while the last command expected
\* setpoint_off: the handler ran and left everything as it was
C33_Witness ==
  /\ last.op = "on_trv_setpoint_change"
  /\ ~last.skipped
  /\ last.suspends = 0
  /\ trv[last.entity] = setpoint_on
  /\ expected_setpoint = setpoint_off
  /\ active
  /\ verify_timers = 0

\* ---- the implicit invariants ----

\* C34: no stuck suspension: in every reachable state between callbacks,
\* active = FALSE implies that a verification check is scheduled.
C34_NoStuckSuspension == ~active => verify_timers > 0

Wanted(target_temp, current_temp) ==
  IF WindowOpen THEN setpoint_off
  ELSE IF current_temp < target_temp - temp_tol_min THEN setpoint_on
  ELSE IF current_temp > target_temp + temp_tol_max THEN setpoint_off
  ELSE NoValue

\* C36: the commit logic never writes a setpoint equal to the valve's
\* currently reported setpoint: setpoint_on is commanded only when the valve
\* is not at setpoint_on and setpoint_off only when it is not at
\* setpoint_off; when the valve is already in the mode wanted, no command
\* is issued and the listener is reactivated without a verification cycle.
C36_NoRewriteOfCurrentMode ==
  (active /\ get_trv_setpoint >= 0) =>
    \A clock \in Clocks :
      MatchingPairs(clock) # {} =>
        LET target == FirstMatchSetpoint(clock)
        IN \A new \in {t \in Temps : t >= 0} :
             LET r == OnTemperature(new, clock)
             IN /\ r.commanded > 0
                     => r.expected_setpoint # get_trv_setpoint
                /\ \A i \in 1..Len(r.calls) :
                     r.calls[i].temperature # get_trv_setpoint
                /\ Wanted(target, new) = get_trv_setpoint
                     => /\ r.commanded = 0
                        /\ r.calls = <<>>
                        /\ r.verify_timers = verify_timers
                        /\ r.active

\* control_trv ran with the target 19.0 (none of the readings lies inside
\* its band) and the valve at setpoint_on, no window open, and commanded
\* nothing: the room was cold and the valve already on
C36_Witness ==
  /\ last.op = "on_temperature_change"
  /\ last.control = <<304>>
  /\ last.commanded = 0
  /\ ~last.raised
  /\ ~WindowOpen
  /\ get_trv_setpoint = setpoint_on
  /\ active
  /\ \A t \in Temps : ~(304 - temp_tol_min <= t /\ t <= 304 + temp_tol_max)

\* C37: when the valve's current setpoint is neither setpoint_on nor
\* setpoint_off and no window is open, the commit logic issues no command
\* for any temperature and reactivates the listener.
C37_UnknownValveStateNoCommand ==
  (/\ active
   /\ ~WindowOpen
   /\ get_trv_setpoint >= 0
   /\ get_trv_setpoint \notin {setpoint_on, setpoint_off}) =>
    \A x \in CommitInputs :
      x[1] >= 0 =>
        LET r == Commit(x)
        IN /\ Len(r.control) = 1
           /\ r.commanded = 0
           /\ r.calls = <<>>
           /\ r.sleeps = 0
           /\ r.verify_timers = verify_timers
           /\ r.retry_count = retry_count
           /\ r.expected_setpoint = expected_setpoint
           /\ r.active
           /\ ~r.raised

\* control_trv ran with the target 19.0, which every reading is below or
\* above, found the valve at 20.0 and commanded nothing
C37_Witness ==
  /\ last.op = "on_temperature_change"
  /\ last.control = <<304>>
  /\ last.commanded = 0
  /\ ~last.raised
  /\ ~WindowOpen
  /\ get_trv_setpoint = 320
  /\ active
  /\ calls = <<>>

\* C38 (checked under CmdSpec): set_trv_setpoint acts only while the
\* listener is suspended: invoked while active = TRUE it writes to no
\* valve, schedules no verification check and leaves retry_count and
\* expected_setpoint unchanged.  Hence no device write is ever issued
\* while active = TRUE, by any callback.
C38_CommandOnlyWhileSuspended ==
  [][/\ (active /\ last'.op = "set_trv_setpoint")
          => /\ calls' = <<>>
             /\ last'.commanded = 0
             /\ last'.sleeps = 0
             /\ ~last'.raised
             /\ UNCHANGED <<active, retry_count, expected_setpoint,
                            verify_timers>>
     /\ last'.active_writes = 0]_vars

\* set_trv_setpoint was called while the listener was active, after a
\* cycle that ended: nothing was written and the cycle's values are kept
C38_Witness ==
  /\ last.op = "set_trv_setpoint"
  /\ active
  /\ trv_entities.defined
  /\ calls = <<>>
  /\ last.commanded = 0
  /\ expected_setpoint # NoValue
  /\ verify_timers = 0

====
